---------------------------- MODULE Spec2Model ----------------------------
(* A model of the WhatsApp notifier command-line script, in its two        *)
(* variants: the enhanced one (exit codes 0..3, numeric fallback match,    *)
(* gracefulExit helper) and the minimal one (name match only, destroy and  *)
(* exit in a finally block).  The whatsapp-web.js client is the            *)
(* environment: it delivers the qr / ready / auth_failure events and       *)
(* answers getChats, sendMessage and destroy by returning or throwing.     *)
(* Strings are sequences of one-character strings.                         *)
EXTENDS Integers, Sequences, FiniteSets

VARIABLES variant, argv, recipientRaw, message, recipient, client, handlers,
          proc, exitCode, hpc, chats, chat, sendText, exitArg, trace,
          outcome, stderr, readyFired, qrCount, authFailCount

vars == <<variant, argv, recipientRaw, message, recipient, client, handlers,
          proc, exitCode, hpc, chats, chat, sendText, exitArg, trace,
          outcome, stderr, readyFired, qrCount, authFailCount>>

-----------------------------------------------------------------------------
(* Bounds *)

\* longest recipient argument, in characters
MaxRecLen == 2
\* largest number of message arguments
MaxParts == 2
\* longest chat list getChats returns
MaxChats == 2
\* most qr events delivered in a run
MaxQr == 1
\* most auth_failure events delivered in a run
MaxAuthFail == 1

-----------------------------------------------------------------------------
(* Inputs *)

Variants == {"enhanced", "minimal"}

SeqsUpTo(S, n) == UNION {[1..k -> S] : k \in 0..n}

\* characters a recipient argument is made of
RecipientChars == {"+", " ", "1"}

\* the words a message is made of (the empty argument included)
Words == {<<>>, <<"h">>}

\* the value of a destructured array element that is not there
Undefined == <<"undefined">>

\* process.argv after the node binary and the script path
ArgvInputs ==
    {<<>>} \cup
    {<<r>> \o ps : r \in SeqsUpTo(RecipientChars, MaxRecLen),
                   ps \in SeqsUpTo(Words, MaxParts)}

\* the chats of the session: display name and numeric user portion of the id
ChatPool == [name : {<<"1">>, <<"+", "1">>}, user : {<<"1">>, <<"2">>}]

ChatLists == SeqsUpTo(ChatPool, MaxChats)

\* what Node does with a rejected promise nobody handles: end the process
\* with code 1 (the default since Node 15) or warn and carry on (before)
UnhandledRejectionModes == {"throw", "warn"}

-----------------------------------------------------------------------------
(* Pure helpers *)

\* const [, , recipientRaw, ...msgParts] = process.argv
RecipientOf(av) == IF Len(av) >= 1 THEN av[1] ELSE Undefined

MsgPartsOf(av) == IF Len(av) >= 1 THEN Tail(av) ELSE <<>>

RECURSIVE JoinNoSeparator(_)
JoinNoSeparator(ps) ==
    IF Len(ps) = 0 THEN <<>>
    ELSE ps[1] \o JoinNoSeparator(Tail(ps))

\* msgParts.join(' ')
RECURSIVE Join(_)
Join(ps) ==
    IF Len(ps) = 0 THEN <<>>
    ELSE IF Len(ps) = 1 THEN ps[1]
    ELSE ps[1] \o <<" ">> \o Join(Tail(ps))

\* !x for a string or undefined
Falsy(x) == x = Undefined \/ x = <<>>

ArgsInvalidNoMessage(raw, msg) == Falsy(raw)

\* if (!recipientRaw || !message)
ArgsInvalid(raw, msg) == Falsy(raw) \/ Falsy(msg)

Stripped(c) == c \in {"+", " "}

Kept(c) == ~Stripped(c)

NormalizeFirstOnly(s) ==
    IF \E i \in 1..Len(s) : Stripped(s[i])
    THEN LET i == CHOOSE k \in 1..Len(s) :
                     /\ Stripped(s[k])
                     /\ \A j \in 1..(k - 1) : ~Stripped(s[j])
         IN SubSeq(s, 1, i - 1) \o SubSeq(s, i + 1, Len(s))
    ELSE s

\* recipientRaw.replace(/[+ ]/g, '')
Normalize(s) == SelectSeq(s, Kept)

\* the lookup key of the numeric match: the enhanced variant normalizes, the
\* minimal variant has the raw recipient only
RecipientKey(v, raw) == IF v = "enhanced" THEN Normalize(raw) ELSE raw

\* Array.prototype.find over the display names: index of the first hit, 0
\* for undefined
FindByName(cs, raw) ==
    IF \E i \in 1..Len(cs) : cs[i].name = raw
    THEN CHOOSE i \in 1..Len(cs) :
            /\ cs[i].name = raw
            /\ \A j \in 1..(i - 1) : cs[j].name # raw
    ELSE 0

\* Array.prototype.find over the numeric user portions
FindByUser(cs, key) ==
    IF \E i \in 1..Len(cs) : cs[i].user = key
    THEN CHOOSE i \in 1..Len(cs) :
            /\ cs[i].user = key
            /\ \A j \in 1..(i - 1) : cs[j].user # key
    ELSE 0

FindChatUserFirst(v, cs, raw, key) ==
    IF v = "enhanced"
    THEN IF FindByUser(cs, key) # 0 THEN FindByUser(cs, key)
         ELSE FindByName(cs, raw)
    ELSE FindByName(cs, raw)

FindChatLastUser(v, cs, raw, key) ==
    IF v = "enhanced"
    THEN IF FindByName(cs, raw) # 0 THEN FindByName(cs, raw)
         ELSE IF \E i \in 1..Len(cs) : cs[i].user = key
              THEN CHOOSE i \in 1..Len(cs) :
                      /\ cs[i].user = key
                      /\ \A j \in (i + 1)..Len(cs) : cs[j].user # key
              ELSE 0
    ELSE FindByName(cs, raw)

\* chats.find(c => c.name === recipientRaw) ||
\* chats.find(c => c.id.user === recipient)      (enhanced)
\* chats.find(c => c.name === recipient)         (minimal)
FindChat(v, cs, raw, key) ==
    IF v = "enhanced"
    THEN IF FindByName(cs, raw) # 0 THEN FindByName(cs, raw)
         ELSE FindByUser(cs, key)
    ELSE FindByName(cs, raw)

NotFoundCodeZero(v) == 0

\* the code the not-found branch ends with
NotFoundCode(v) == IF v = "enhanced" THEN 2 ELSE 0

SendFailCodeThree(v) == IF v = "enhanced" THEN 3 ELSE 0

\* the code a rejected sendMessage ends with
SendFailCode(v) == IF v = "enhanced" THEN 1 ELSE 0

LookupFailCodeOne(v) == IF v = "enhanced" THEN 1 ELSE 0

LookupFailCodeZero(v) == 0

\* the code a rejected getChats ends with
LookupFailCode(v) == IF v = "enhanced" THEN 3 ELSE 0

\* what a rejected getChats writes to standard error
LookupFailLog(v) == IF v = "enhanced" THEN "unexpected" ELSE "sendfail"

\* how often a call was made so far
RECURSIVE Count(_, _)
Count(tr, what) ==
    IF Len(tr) = 0 THEN 0
    ELSE (IF tr[1] = what THEN 1 ELSE 0) + Count(Tail(tr), what)

Calls(what) == Count(trace, what)

-----------------------------------------------------------------------------
(* The program *)

Init ==
    /\ variant \in Variants
    /\ argv \in ArgvInputs
    /\ recipientRaw = Undefined
    /\ message = <<>>
    /\ recipient = <<>>
    /\ client = FALSE
    /\ handlers = {}
    /\ proc = "start"
    /\ exitCode = -1
    /\ hpc = "idle"
    /\ chats = <<>>
    /\ chat = 0
    /\ sendText = <<>>
    /\ exitArg = -1
    /\ trace = <<>>
    /\ outcome = [getChats |-> "none", sendMessage |-> "none", destroy |-> "none"]
    /\ stderr = {}
    /\ readyFired = FALSE
    /\ qrCount = 0
    /\ authFailCount = 0

\* process.exit(code)
ProcessExit(tr, code) ==
    /\ proc' = "exited"
    /\ exitCode' = code
    /\ trace' = tr \o <<"exit">>

CallDestroyNoRelease(tr, code) ==
    /\ trace' = tr
    /\ hpc' = "destroy"
    /\ exitArg' = code

\* gracefulExit(code) up to its await, and the minimal variant's finally
\* block up to its await: client.destroy() is called
CallDestroy(tr, code) ==
    /\ trace' = tr \o <<"destroy">>
    /\ hpc' = "destroy"
    /\ exitArg' = code

\* The top level of the script, which runs to completion before any event is
\* delivered: the arguments, the client, the three handlers, initialize().
Main ==
    /\ proc = "start"
    /\ recipientRaw' = RecipientOf(argv)
    /\ message' = Join(MsgPartsOf(argv))
    /\ IF ArgsInvalid(RecipientOf(argv), Join(MsgPartsOf(argv)))
       THEN /\ stderr' = stderr \cup {"usage"}
            /\ ProcessExit(trace, 1)
            /\ UNCHANGED <<recipient, client, handlers>>
       ELSE /\ recipient' = RecipientKey(variant, RecipientOf(argv))
            /\ client' = TRUE
            /\ handlers' = {"qr", "ready", "auth_failure"}
            /\ trace' = trace \o <<"initialize">>
            /\ proc' = "running"
            /\ UNCHANGED <<stderr, exitCode>>
    /\ UNCHANGED <<variant, argv, hpc, chats, chat, sendText, exitArg,
                   outcome, readyFired, qrCount, authFailCount>>

\* client.on('qr', ...): the code is drawn on the terminal
QrEvent ==
    /\ proc = "running"
    /\ "qr" \in handlers
    /\ ~readyFired
    /\ qrCount < MaxQr
    /\ qrCount' = qrCount + 1
    /\ UNCHANGED <<variant, argv, recipientRaw, message, recipient, client,
                   handlers, proc, exitCode, hpc, chats, chat, sendText,
                   exitArg, trace, outcome, stderr, readyFired, authFailCount>>

\* client.on('auth_failure', m => console.error('Auth failure', m))
AuthFailureEvent ==
    /\ proc = "running"
    /\ "auth_failure" \in handlers
    /\ authFailCount < MaxAuthFail
    /\ authFailCount' = authFailCount + 1
    /\ stderr' = stderr \cup {"authfail"}
    /\ UNCHANGED <<variant, argv, recipientRaw, message, recipient, client,
                   handlers, proc, exitCode, hpc, chats, chat, sendText,
                   exitArg, trace, outcome, readyFired, qrCount>>

\* client.on('ready', async () => { ... await client.getChats()
ReadyEvent ==
    /\ proc = "running"
    /\ "ready" \in handlers
    /\ ~readyFired
    /\ hpc = "idle"
    /\ readyFired' = TRUE
    /\ trace' = trace \o <<"getChats">>
    /\ hpc' = "getChats"
    /\ UNCHANGED <<variant, argv, recipientRaw, message, recipient, client,
                   handlers, proc, exitCode, chats, chat, sendText, exitArg,
                   outcome, stderr, qrCount, authFailCount>>

\* getChats resolves: the lookup, then the not-found branch or the send call
GetChatsReturn ==
    /\ proc = "running"
    /\ hpc = "getChats"
    /\ \E cs \in ChatLists :
         LET c == FindChat(variant, cs, recipientRaw, recipient) IN
         /\ chats' = cs
         /\ chat' = c
         /\ IF c = 0
            THEN /\ stderr' = stderr \cup {"notfound"}
                 /\ CallDestroy(trace, NotFoundCode(variant))
                 /\ UNCHANGED sendText
            ELSE /\ trace' = trace \o <<"sendMessage">>
                 /\ sendText' = message
                 /\ hpc' = "sendMessage"
                 /\ UNCHANGED <<stderr, exitArg>>
    /\ outcome' = [outcome EXCEPT !.getChats = "ok"]
    /\ UNCHANGED <<variant, argv, recipientRaw, message, recipient, client,
                   handlers, proc, exitCode, readyFired, qrCount,
                   authFailCount>>

\* getChats rejects: the handler's catch
GetChatsThrow ==
    /\ proc = "running"
    /\ hpc = "getChats"
    /\ outcome' = [outcome EXCEPT !.getChats = "error"]
    /\ stderr' = stderr \cup {LookupFailLog(variant)}
    /\ CallDestroy(trace, LookupFailCode(variant))
    /\ UNCHANGED <<variant, argv, recipientRaw, message, recipient, client,
                   handlers, proc, exitCode, chats, chat, sendText,
                   readyFired, qrCount, authFailCount>>

SendReturnNoDelay ==
    /\ proc = "running"
    /\ hpc = "sendMessage"
    /\ outcome' = [outcome EXCEPT !.sendMessage = "ok"]
    /\ CallDestroy(trace, 0)
    /\ UNCHANGED <<variant, argv, recipientRaw, message, recipient, client,
                   handlers, proc, exitCode, chats, chat, sendText, stderr,
                   readyFired, qrCount, authFailCount>>

\* sendMessage resolves: the enhanced variant starts its 3 s timer, the
\* minimal variant goes on to its finally block
SendReturn ==
    /\ proc = "running"
    /\ hpc = "sendMessage"
    /\ outcome' = [outcome EXCEPT !.sendMessage = "ok"]
    /\ IF variant = "enhanced"
       THEN /\ hpc' = "delay"
            /\ UNCHANGED <<trace, exitArg>>
       ELSE CallDestroy(trace, 0)
    /\ UNCHANGED <<variant, argv, recipientRaw, message, recipient, client,
                   handlers, proc, exitCode, chats, chat, sendText, stderr,
                   readyFired, qrCount, authFailCount>>

\* sendMessage rejects: the catch of send (enhanced), of the handler (minimal)
SendThrow ==
    /\ proc = "running"
    /\ hpc = "sendMessage"
    /\ outcome' = [outcome EXCEPT !.sendMessage = "error"]
    /\ stderr' = stderr \cup {"sendfail"}
    /\ CallDestroy(trace, SendFailCode(variant))
    /\ UNCHANGED <<variant, argv, recipientRaw, message, recipient, client,
                   handlers, proc, exitCode, chats, chat, sendText,
                   readyFired, qrCount, authFailCount>>

\* the 3 s timer of send fires: gracefulExit(0)
TimerElapsed ==
    /\ proc = "running"
    /\ hpc = "delay"
    /\ CallDestroy(trace \o <<"delay">>, 0)
    /\ UNCHANGED <<variant, argv, recipientRaw, message, recipient, client,
                   handlers, proc, exitCode, chats, chat, sendText, outcome,
                   stderr, readyFired, qrCount, authFailCount>>

\* destroy resolves: process.exit with the code of the path taken
DestroyReturn ==
    /\ proc = "running"
    /\ hpc = "destroy"
    /\ outcome' = [outcome EXCEPT !.destroy = "ok"]
    /\ hpc' = "done"
    /\ ProcessExit(trace, exitArg)
    /\ UNCHANGED <<variant, argv, recipientRaw, message, recipient, client,
                   handlers, chats, chat, sendText, exitArg, stderr,
                   readyFired, qrCount, authFailCount>>

DestroyThrowUnhandled ==
    /\ proc = "running"
    /\ hpc = "destroy"
    /\ outcome' = [outcome EXCEPT !.destroy = "error"]
    /\ hpc' = "done"
    /\ stderr' = stderr \cup {"unhandled"}
    /\ \E mode \in UnhandledRejectionModes :
         IF mode = "throw"
         THEN ProcessExit(trace, 1)
         ELSE UNCHANGED <<proc, exitCode, trace>>
    /\ UNCHANGED <<variant, argv, recipientRaw, message, recipient, client,
                   handlers, chats, chat, sendText, exitArg, readyFired,
                   qrCount, authFailCount>>

\* destroy rejects.  gracefulExit swallows the error and exits with its code.
\* The minimal variant's finally block has no catch: the handler's promise
\* rejects with nobody to handle it and process.exit(0) is never reached.
DestroyThrow ==
    /\ proc = "running"
    /\ hpc = "destroy"
    /\ outcome' = [outcome EXCEPT !.destroy = "error"]
    /\ hpc' = "done"
    /\ IF variant = "enhanced"
       THEN /\ ProcessExit(trace, exitArg)
            /\ UNCHANGED stderr
       ELSE /\ stderr' = stderr \cup {"unhandled"}
            /\ \E mode \in UnhandledRejectionModes :
                 IF mode = "throw"
                 THEN ProcessExit(trace, 1)
                 ELSE UNCHANGED <<proc, exitCode, trace>>
    /\ UNCHANGED <<variant, argv, recipientRaw, message, recipient, client,
                   handlers, chats, chat, sendText, exitArg, readyFired,
                   qrCount, authFailCount>>

Next ==
    \/ Main
    \/ QrEvent
    \/ AuthFailureEvent
    \/ ReadyEvent
    \/ GetChatsReturn
    \/ GetChatsThrow
    \/ SendReturn
    \/ SendThrow
    \/ TimerElapsed
    \/ DestroyReturn
    \/ DestroyThrow

Spec == Init /\ [][Next]_vars

\* The script's own steps run when they can, and every library call comes
\* back; the library is under no obligation to deliver an event.
FairSpec ==
    /\ Spec
    /\ WF_vars(Main)
    /\ WF_vars(GetChatsReturn \/ GetChatsThrow)
    /\ WF_vars(SendReturn \/ SendThrow)
    /\ WF_vars(TimerElapsed)
    /\ WF_vars(DestroyReturn \/ DestroyThrow)

-----------------------------------------------------------------------------
(* Properties *)

\* the recipient argument is missing or empty, or the arguments after it
\* join to the empty string (there are none, or there is one and it is empty)
BadArguments ==
    \/ Len(argv) = 0
    \/ argv[1] = <<>>
    \/ Len(argv) = 1
    \/ (Len(argv) = 2 /\ argv[2] = <<>>)

NoNameMatch == \A i \in 1..Len(chats) : chats[i].name # recipientRaw

NoUserMatch == \A i \in 1..Len(chats) : chats[i].user # recipient

\* C1: in both variants, a run whose recipient argument is missing or empty
\* or whose joined message is empty ends with exit code 1 and no session
\* work: no client, no handler registered, and process.exit is the only call
\* ever made (no initialize, getChats, sendMessage or destroy).
C1_BadArgumentsExitOne ==
    (proc # "start" /\ BadArguments) =>
        /\ proc = "exited"
        /\ exitCode = 1
        /\ ~client
        /\ handlers = {}
        /\ trace = <<"exit">>

C1_Witness ==
    /\ proc = "exited"
    /\ exitCode = 1
    /\ Len(argv) = 2
    /\ argv[1] # <<>>
    /\ argv[2] = <<>>

C3_ShutdownOncePerRun ==
    proc = "exited" => Calls("destroy") = 1

\* C3 amended: the session is released at most once in a run; a run that
\* exits after the ready handler ran (not found, sent, send failure, lookup
\* exception) has released it exactly once, before the exit; a run that exits
\* on the usage error has released nothing, there being no session.
C3_ShutdownOnceAfterReady ==
    /\ Calls("destroy") <= 1
    /\ Calls("exit") <= 1
    /\ proc = "exited" =>
          /\ trace[Len(trace)] = "exit"
          /\ IF readyFired
             THEN Calls("destroy") = 1 /\ trace[Len(trace) - 1] = "destroy"
             ELSE Calls("destroy") = 0 /\ exitCode = 1

C3_Witness ==
    /\ proc = "exited"
    /\ readyFired
    /\ outcome.getChats = "error"
    /\ Calls("destroy") = 1

\* C4: in both variants, when a chat is found and sendMessage succeeds,
\* destroy is invoked exactly once and the process exits with code 0.
C4_SuccessExitsZero ==
    (outcome.sendMessage = "ok" /\ proc = "exited") =>
        /\ Calls("destroy") = 1
        /\ exitCode = 0

\* C5: in the enhanced variant, when no chat has the raw recipient as its
\* display name and none has the normalized recipient as its user portion,
\* sendMessage is never called and the process exits with code 2.
C5_NotFoundExitsTwo ==
    (variant = "enhanced" /\ outcome.getChats = "ok"
        /\ NoNameMatch /\ NoUserMatch) =>
        /\ Calls("sendMessage") = 0
        /\ "notfound" \in stderr
        /\ (proc = "exited" => exitCode = 2)

C5_Witness ==
    /\ variant = "enhanced"
    /\ Len(chats) = MaxChats
    /\ NoNameMatch
    /\ NoUserMatch
    /\ proc = "exited"
    /\ exitCode = 2

\* C6: every failure is terminal: once a failure was reported (usage error,
\* auth_failure event, recipient not found, exception during lookup or
\* dispatch) the process eventually exits, whether or not the ready event is
\* delivered afterwards, and no library call is made a second time.
C6_FailureIsTerminal ==
    /\ (stderr # {}) ~> (proc = "exited")
    /\ [](\A what \in {"initialize", "getChats", "sendMessage", "destroy"} :
              Calls(what) <= 1)

\* C7: in both variants, when the release step itself fails, the failure is
\* swallowed: the process exits, with the code it would have used had the
\* release succeeded.
C7_ReleaseFailureSwallowed ==
    outcome.destroy = "error" => (proc = "exited" /\ exitCode = exitArg)

\* C8: in the minimal variant, when sendMessage or getChats raises, the
\* process exits with a non-zero code.
C8_MinimalFailureNonZero ==
    (variant = "minimal" /\ proc = "exited"
        /\ (outcome.sendMessage = "error" \/ outcome.getChats = "error")) =>
        exitCode # 0

\* C9: in the enhanced variant, when the chat list holds a chat whose display
\* name is the raw recipient, the first such chat is the one selected, also
\* when another chat, earlier in the list or not, has the normalized
\* recipient as its user portion.
C9_NameMatchPreferred ==
    (variant = "enhanced" /\ outcome.getChats = "ok" /\ ~NoNameMatch) =>
        /\ chat \in 1..Len(chats)
        /\ chats[chat].name = recipientRaw
        /\ \A j \in 1..(chat - 1) : chats[j].name # recipientRaw

C9_Witness ==
    /\ variant = "enhanced"
    /\ Len(chats) = 2
    /\ chats[1].user = recipient
    /\ chats[1].name # recipientRaw
    /\ chats[2].name = recipientRaw
    /\ chat = 2

\* C10: in the enhanced variant, when no display name is the raw recipient
\* but some chat's user portion is the normalized recipient, the first such
\* chat is selected, sendMessage is called on it exactly once with the
\* message text, and after a successful send the process exits with code 0.
C10_FallbackMatch ==
    (variant = "enhanced" /\ outcome.getChats = "ok"
        /\ NoNameMatch /\ ~NoUserMatch) =>
        /\ chat \in 1..Len(chats)
        /\ chats[chat].user = recipient
        /\ \A j \in 1..(chat - 1) : chats[j].user # recipient
        /\ Calls("sendMessage") = 1
        /\ sendText = message
        /\ (outcome.sendMessage = "ok" /\ proc = "exited" => exitCode = 0)

C10_Witness ==
    /\ variant = "enhanced"
    /\ recipientRaw # recipient
    /\ NoNameMatch
    /\ Len(chats) = 2
    /\ chats[1].user = recipient
    /\ chats[2].user = recipient
    /\ chat = 1
    /\ outcome.sendMessage = "ok"
    /\ proc = "exited"
    /\ exitCode = 0

\* the positions of the raw recipient that hold neither '+' nor ' '
KeptPositions == {i \in 1..Len(recipientRaw) : recipientRaw[i] \notin {"+", " "}}

\* C11: in the enhanced variant the normalized recipient is the raw
\* recipient with every '+' and every space removed: it has one character
\* for each other position of the raw recipient, in the original order.
C11_NormalizedRecipient ==
    (variant = "enhanced" /\ client) =>
        /\ Len(recipient) = Cardinality(KeptPositions)
        /\ \A i \in KeptPositions :
              recipient[Cardinality({j \in KeptPositions : j <= i})]
                  = recipientRaw[i]

C11_Witness ==
    /\ variant = "enhanced"
    /\ client
    /\ recipientRaw = <<"+", " ">>
    /\ recipient = <<>>

\* C12: in the enhanced variant, when getChats (or the search over its
\* result) raises, the exception is logged, sendMessage is never called,
\* destroy is invoked exactly once and the process exits with code 3.
C12_LookupFailureExitsThree ==
    (variant = "enhanced" /\ outcome.getChats = "error") =>
        /\ "unexpected" \in stderr
        /\ Calls("sendMessage") = 0
        /\ Calls("destroy") = 1
        /\ (proc = "exited" => exitCode = 3)

C12_Witness ==
    /\ variant = "enhanced"
    /\ outcome.getChats = "error"
    /\ outcome.destroy = "error"
    /\ proc = "exited"
    /\ exitCode = 3

\* the calls of the successful run of the enhanced variant, in order
SuccessOrder ==
    <<"initialize", "getChats", "sendMessage", "delay", "destroy", "exit">>

\* C13: in the enhanced variant, on the successful-send path the calls are
\* made in the order getChats, sendMessage, delay elapsed, destroy, exit:
\* the session is not released before the delay has elapsed and the process
\* does not exit before the release was attempted.
C13_SuccessPathOrder ==
    (variant = "enhanced" /\ outcome.sendMessage = "ok") =>
        /\ Len(trace) \in 3..Len(SuccessOrder)
        /\ trace = SubSeq(SuccessOrder, 1, Len(trace))
        /\ (hpc = "delay" => Calls("destroy") = 0)
        /\ (proc = "exited" => outcome.destroy # "none")

C13_Witness ==
    /\ variant = "enhanced"
    /\ outcome.sendMessage = "ok"
    /\ trace = SuccessOrder

\* C14: in the enhanced variant, once ready has fired the process eventually
\* exits with a code in 0..3, every library call coming back, whatever qr or
\* auth_failure events are delivered before or during the send path.
C14_ReadyLeadsToExit ==
    (variant = "enhanced" /\ readyFired)
        ~> (proc = "exited" /\ exitCode \in {0, 1, 2, 3})

C14_Witness ==
    /\ variant = "enhanced"
    /\ readyFired
    /\ qrCount = 1
    /\ authFailCount = 1
    /\ outcome.destroy = "error"
    /\ proc = "exited"
    /\ exitCode \in {0, 1, 2, 3}

\* C15: in the enhanced variant the process exits with code 0 only if
\* sendMessage was called on the selected chat and came back without error;
\* no usage-error, not-found, lookup-failure or send-failure run ends in 0.
C15_ExitZeroMeansSent ==
    (variant = "enhanced" /\ proc = "exited" /\ exitCode = 0) =>
        /\ chat \in 1..Len(chats)
        /\ Calls("sendMessage") = 1
        /\ outcome.sendMessage = "ok"
        /\ outcome.getChats = "ok"
        /\ stderr \cap {"usage", "notfound", "sendfail", "unexpected"} = {}

C15_Witness ==
    /\ variant = "enhanced"
    /\ proc = "exited"
    /\ exitCode = 0
    /\ outcome.sendMessage = "ok"
    /\ authFailCount = 1

\* the message arguments
MessageArgs == MsgPartsOf(argv)

\* where the k-th message argument starts in the joined text, less one
RECURSIVE Offset(_)
Offset(k) == IF k <= 1 THEN 0 ELSE Offset(k - 1) + Len(MessageArgs[k - 1]) + 1

\* text is the message arguments in order, one space between neighbours
JoinedBySingleSpaces(text) ==
    LET n == Len(MessageArgs) IN
    /\ n >= 1
    /\ Len(text) = Offset(n) + Len(MessageArgs[n])
    /\ \A k \in 1..n : \A i \in 1..Len(MessageArgs[k]) :
          text[Offset(k) + i] = MessageArgs[k][i]
    /\ \A k \in 2..n : text[Offset(k)] = " "

\* C16: in both variants (ready being delivered at most once), sendMessage
\* is called at most once, only after getChats has returned, with the
\* message arguments joined by single spaces as its text, and neither
\* getChats nor sendMessage is called after destroy was invoked.
C16_SingleSendBeforeRelease ==
    /\ Calls("sendMessage") <= 1
    /\ Calls("getChats") <= 1
    /\ Calls("sendMessage") = 1 =>
          /\ outcome.getChats = "ok"
          /\ \E i, j \in 1..Len(trace) :
                i < j /\ trace[i] = "getChats" /\ trace[j] = "sendMessage"
          /\ JoinedBySingleSpaces(sendText)
    /\ \A i, j \in 1..Len(trace) :
          (i < j /\ trace[i] = "destroy") =>
              trace[j] \notin {"getChats", "sendMessage"}

C16_Witness ==
    /\ Calls("sendMessage") = 1
    /\ Calls("destroy") = 1
    /\ Len(argv) = 3
    /\ sendText = <<"h", " ", "h">>

=============================================================================
